---- MODULE Spec2Model ----
(***************************************************************************)
(* Model of cpu.py: one run of main().  The kernel pseudo-files are the    *)
(* environment (fixed for the run); the program reads them in the order of *)
(* get_cpu_stat and prints one report.                                     *)
(*                                                                         *)
(* Text is a sequence of tokens.  A token is one character of interest     *)
(* (" ", "\t", "\n", ":", "=", "\"") or a word: a run of characters that    *)
(* holds none of those.  strip(), partition(), split() and startswith()    *)
(* are computed on the tokens as Python computes them on the characters.   *)
(***************************************************************************)
EXTENDS Integers, Sequences, FiniteSets, TLC

\* ------------------------------------------------------------------ bounds
MaxLines == 3
MaxBlocks == 3
MaxCpus == 3
MaxOsLines == 2

\* ------------------------------------------------------- optional values
\* Python's None against a value of the type.
Nothing == [ok |-> FALSE, v |-> 0]
NoText == [ok |-> FALSE, v |-> <<>>]
Some(x) == [ok |-> TRUE, v |-> x]

\* A file of the environment: err # "none" makes open() raise that error,
\* otherwise `lines` is its content, one token sequence per line.
File(ls) == [err |-> "none", lines |-> ls]
NoFile(e) == [err |-> e, lines |-> <<>>]

\* ------------------------------------------------------------------ text
Whitespace == {" ", "\t", "\n"}
Unknown == <<"Unknown">>

RECURSIVE LStripChars(_, _)
LStripChars(s, cs) ==
    IF s = <<>> THEN <<>>
    ELSE IF Head(s) \in cs THEN LStripChars(Tail(s), cs) ELSE s

RECURSIVE RStripChars(_, _)
RStripChars(s, cs) ==
    IF s = <<>> THEN <<>>
    ELSE IF s[Len(s)] \in cs THEN RStripChars(SubSeq(s, 1, Len(s) - 1), cs) ELSE s

\* str.strip(chars)
StripChars(s, cs) == RStripChars(LStripChars(s, cs), cs)

\* str.strip()
Strip(s) == StripChars(s, Whitespace)

\* Index of the first occurrence of token c in s, 0 when there is none.
RECURSIVE FindFrom(_, _, _)
FindFrom(s, c, i) ==
    IF i > Len(s) THEN 0
    ELSE IF s[i] = c THEN i ELSE FindFrom(s, c, i + 1)

Find(s, c) == FindFrom(s, c, 1)

\* str.partition(c): the text before the first c and the text after it.
Partition(s, c) ==
    LET i == Find(s, c) IN
    IF i = 0 THEN [head |-> s, found |-> FALSE, tail |-> <<>>]
    ELSE [head |-> SubSeq(s, 1, i - 1), found |-> TRUE, tail |-> SubSeq(s, i + 1, Len(s))]

\* The integer literals int() accepts among the words of the model.
IntLiteral ==
    ("0" :> 0) @@ ("1" :> 1) @@ ("2" :> 2) @@ ("3" :> 3) @@ ("4" :> 4) @@ ("-1" :> -1)
    @@ ("800000" :> 800000) @@ ("2400000" :> 2400000) @@ ("2400123" :> 2400123)
    @@ ("3600000" :> 3600000) @@ ("250" :> 250) @@ ("16777216" :> 16777216)
    @@ ("131072" :> 131072) @@ ("1048576" :> 1048576)

\* The decimal literals float() accepts among the words, in thousandths.
FloatLiteral ==
    ("1197.312" :> 1197312) @@ ("3000.000" :> 3000000) @@ ("1500.260" :> 1500260)

\* int(s): Nothing is ValueError.
ParseInt(s) ==
    IF Len(s) = 1 /\ s[1] \in DOMAIN IntLiteral THEN Some(IntLiteral[s[1]]) ELSE Nothing

\* float(s), in thousandths: Nothing is ValueError.
ParseFloat(s) ==
    IF Len(s) = 1 /\ s[1] \in DOMAIN FloatLiteral THEN Some(FloatLiteral[s[1]])
    ELSE IF Len(s) = 1 /\ s[1] \in DOMAIN IntLiteral THEN Some(IntLiteral[s[1]] * 1000)
    ELSE Nothing

\* round(n / d, k) as the integer count of 10^-k units is RoundDiv(n * 10^k, d):
\* to the nearest, an exact half to the even neighbour.  (A half that the binary
\* quotient does not represent exactly, such as 50 kHz = 0.05 MHz, follows the
\* representation error instead; the inputs of the model hold no such value.)
RoundDiv(n, d) ==
    LET q == n \div d
        r == n % d
    IN IF 2 * r < d THEN q
       ELSE IF 2 * r > d THEN q + 1
       ELSE IF q % 2 = 0 THEN q ELSE q + 1

\* _khz_to_mhz: round(khz / 1000.0, 1), in tenths of a MHz.
_khz_to_mhz(khz) == IF khz.ok THEN Some(RoundDiv(khz.v, 100)) ELSE Nothing

\* _read_first_line: the stripped first line, Nothing on OSError.
_read_first_line(f) ==
    IF f.err # "none" THEN NoText
    ELSE IF f.lines = <<>> THEN Some(<<>>)
    ELSE Some(Strip(f.lines[1]))

\* _read_int
_read_int(f) ==
    LET s == _read_first_line(f) IN
    IF ~s.ok \/ s.v = <<>> THEN Nothing ELSE ParseInt(s.v)

\* str.split(): the maximal runs of non-whitespace tokens, in order.
SplitWs(s) ==
    LET starts == {i \in 1..Len(s) :
                      s[i] \notin Whitespace /\ (i = 1 \/ s[i - 1] \in Whitespace)}
        EndOf(i) == CHOOSE j \in i..Len(s) :
                      /\ \A k \in i..j : s[k] \notin Whitespace
                      /\ (j = Len(s) \/ s[j + 1] \in Whitespace)
        Nth(k) == CHOOSE i \in starts : Cardinality({j \in starts : j <= i}) = k
    IN [k \in 1..Cardinality(starts) |-> SubSeq(s, Nth(k), EndOf(Nth(k)))]

\* str.startswith(prefix)
StartsWith(s, prefix) ==
    Len(s) >= Len(prefix) /\ SubSeq(s, 1, Len(prefix)) = prefix

\* Python truthiness of an optional string: neither None nor "".
Truthy(t) == t.ok /\ t.v # <<>>

\* x or "Unknown"
OrUnknown(s) == IF s = <<>> THEN Unknown ELSE s

\* ------------------------------------------------------- _detect_distribution
DefaultDistribution == [name |-> Unknown, version |-> Unknown, pretty |-> Unknown]

\* f"{name} {version}".strip()
Composite(name, version) == Strip(name \o <<" ">> \o version)

\* The detection library, when importable: lib.raises is the call that raises
\* (1 name, 2 version, 3 pretty name; 0 none).  `done` tells whether the branch
\* returned; the assignments made before an exception stay in `out`.
DistroBranch(lib) ==
    LET out0 == DefaultDistribution
        out1 == [out0 EXCEPT !.name = OrUnknown(lib.name)]
        out2 == [out1 EXCEPT !.version = OrUnknown(lib.version)]
        out3 == [out2 EXCEPT !.pretty =
                    IF lib.pretty # <<>> THEN lib.pretty
                    ELSE Composite(out2.name, out2.version)]
    IN IF ~lib.present THEN [done |-> FALSE, out |-> out0]
       ELSE IF lib.raises = 1 THEN [done |-> FALSE, out |-> out0]
       ELSE IF lib.raises = 2 THEN [done |-> FALSE, out |-> out1]
       ELSE IF lib.raises = 3 THEN [done |-> FALSE, out |-> out2]
       ELSE [done |-> TRUE, out |-> out3]

\* line.split("=", 1)[1].strip().strip('"')
OsReleaseValue(line) == StripChars(Strip(Partition(line, "=").tail), {"\""})

\* One line of /etc/os-release against the three locals.
OsReleaseLine(acc, raw) ==
    LET line == Strip(raw) IN
    IF StartsWith(line, <<"PRETTY_NAME", "=">>)
        THEN [acc EXCEPT !.pretty = Some(OsReleaseValue(line))]
    ELSE IF StartsWith(line, <<"NAME", "=">>)
        THEN [acc EXCEPT !.name = Some(OsReleaseValue(line))]
    ELSE IF StartsWith(line, <<"VERSION_ID", "=">>)
        THEN [acc EXCEPT !.version = Some(OsReleaseValue(line))]
    ELSE acc

RECURSIVE OsReleaseScan(_, _)
OsReleaseScan(acc, lines) ==
    IF lines = <<>> THEN acc
    ELSE OsReleaseScan(OsReleaseLine(acc, Head(lines)), Tail(lines))

\* The fallback's locals after the try block: a missing file is skipped, an
\* error on open is swallowed.
OsReleaseLocals(f) ==
    LET none == [pretty |-> NoText, name |-> NoText, version |-> NoText] IN
    IF f.err # "none" THEN none ELSE OsReleaseScan(none, f.lines)

\* pretty = "{name} {version}" when it is still the sentinel.
SynthesizePretty(out) ==
    IF out.pretty = Unknown
    THEN [out EXCEPT !.pretty = Composite(out.name, out.version)]
    ELSE out

_detect_distribution(lib, f) ==
    LET b == DistroBranch(lib)
        loc == OsReleaseLocals(f)
        o1 == IF Truthy(loc.pretty) THEN [b.out EXCEPT !.pretty = loc.pretty.v] ELSE b.out
        o2 == IF Truthy(loc.name) THEN [o1 EXCEPT !.name = loc.name.v] ELSE o1
        o3 == IF Truthy(loc.version) THEN [o2 EXCEPT !.version = loc.version.v] ELSE o2
    IN IF b.done THEN b.out ELSE SynthesizePretty(o3)

\* -------------------------------------------------------- _parse_proc_cpuinfo
ScanStart ==
    [logical_cores |-> 0, vendor_id |-> Unknown, model_name |-> Unknown,
     cache_size |-> Unknown, cpu_mhz |-> Nothing, sockets |-> <<>>,
     current_socket |-> Nothing]

\* The key taken without stripping it.
KeyOfUnstripped(line) == Partition(line, ":").head

\* key, _, value = line.partition(":"); key.strip()
KeyOf(line) == Strip(Partition(line, ":").head)

\* value.strip()
ValueOf(line) == Strip(Partition(line, ":").tail)

\* The core count added for every line of a package, seen before or not.
AddSocketEveryLine(sockets, s, n) ==
    [k \in DOMAIN sockets \cup {s} |->
        IF k = s THEN (IF s \in DOMAIN sockets THEN sockets[s] + n ELSE n) ELSE sockets[k]]

\* if current_socket not in sockets: sockets[current_socket] = int(value)
AddSocket(sockets, s, n) ==
    IF s \in DOMAIN sockets THEN sockets
    ELSE [k \in DOMAIN sockets \cup {s} |-> IF k = s THEN n ELSE sockets[k]]

\* One iteration of the scan loop.
ParseLine(st, line) ==
    LET key == KeyOf(line)
        value == ValueOf(line)
    IN
    IF Find(line, ":") = 0 THEN st
    ELSE IF key = <<"processor">> THEN [st EXCEPT !.logical_cores = @ + 1]
    ELSE IF key = <<"vendor_id">> /\ st.vendor_id = Unknown
        THEN [st EXCEPT !.vendor_id = value]
    ELSE IF key = <<"model", " ", "name">> /\ st.model_name = Unknown
        THEN [st EXCEPT !.model_name = value]
    ELSE IF key = <<"cache", " ", "size">> /\ st.cache_size = Unknown
        THEN [st EXCEPT !.cache_size = value]
    ELSE IF key = <<"cpu", " ", "MHz">> /\ ~st.cpu_mhz.ok
        THEN [st EXCEPT !.cpu_mhz = ParseFloat(value)]
    ELSE IF key = <<"physical", " ", "id">>
        THEN [st EXCEPT !.current_socket = ParseInt(value)]
    ELSE IF key = <<"cpu", " ", "cores">> /\ st.current_socket.ok
        THEN IF ParseInt(value).ok
             THEN [st EXCEPT !.sockets = AddSocket(@, st.current_socket.v, ParseInt(value).v)]
             ELSE st
    ELSE st

RECURSIVE SumValues(_)
SumValues(f) ==
    IF DOMAIN f = {} THEN 0
    ELSE LET k == CHOOSE x \in DOMAIN f : TRUE
         IN f[k] + SumValues([x \in DOMAIN f \ {k} |-> f[x]])

\* sum(sockets.values()) if sockets else 0
PhysicalCores(sockets) == SumValues(sockets)

\* The dict _parse_proc_cpuinfo returns.
ParseResult(st) ==
    [vendor |-> st.vendor_id, model |-> st.model_name,
     logical_cores |-> st.logical_cores,
     physical_cores |-> PhysicalCores(st.sockets),
     cache_size |-> st.cache_size,
     frequency_mhz_cur |-> IF st.cpu_mhz.ok THEN Some(RoundDiv(st.cpu_mhz.v, 100)) ELSE Nothing]

\* Only a missing file counts as a failed open; any other error reads as empty.
OpenFailsOnlyMissing(f) == f.err = "ENOENT"

\* An empty file counts as a failed open too.
OpenFailsOrEmpty(f) == f.err # "none" \/ f.lines = <<>>

\* open("/proc/cpuinfo") raises.
OpenFails(f) == f.err # "none"

\* --------------------------------------------------- _cpu_topology_from_sysfs
\* The (package, core) pairs of the topology directories that expose both.
TopologyPairs(dirs) ==
    {<<_read_int(dirs[i].pkg).v, _read_int(dirs[i].core).v>> :
        i \in {j \in 1..Len(dirs) : _read_int(dirs[j].pkg).ok /\ _read_int(dirs[j].core).ok}}

_cpu_topology_from_sysfs(dirs) == Cardinality(TopologyPairs(dirs))

\* The topology consulted whatever the parse gave.
AlwaysTopology(physical) == TRUE

\* if not stats["cpu"]["physical_cores"]
NeedsTopology(physical) == physical = 0

\* -------------------------------------------------------- _cpufreq_from_sysfs
\* The policy directory names the model knows, in the order sorted() gives them.
PolicyNames == <<"policy0", "policy1", "policy10", "policy2">>

\* policy0 if it is a directory, else the first of sorted(glob("policy*")).
SelectPolicy(dirs) ==
    IF "policy0" \in DOMAIN dirs THEN Some(<<"policy0">>)
    ELSE IF DOMAIN dirs = {} THEN NoText
    ELSE LET i == CHOOSE i \in 1..Len(PolicyNames) :
                    /\ PolicyNames[i] \in DOMAIN dirs
                    /\ \A j \in 1..(i - 1) : PolicyNames[j] \notin DOMAIN dirs
         IN Some(<<PolicyNames[i]>>)

\* The policy named only when its current frequency was readable.
PolicyLabelIfCurrent(policy, cur_khz) == IF cur_khz.ok THEN policy ELSE NoText

\* os.path.basename(policy), for every policy that was selected.
PolicyLabel(policy, cur_khz) == policy

_cpufreq_from_sysfs(dirs) ==
    LET policy == SelectPolicy(dirs) IN
    IF ~policy.ok
    THEN [frequency_mhz_cur |-> Nothing, frequency_mhz_max |-> Nothing,
          cpufreq_policy |-> NoText]
    ELSE LET d == dirs[policy.v[1]]
             cur_khz == _read_int(d.cur)
             max_khz == _read_int(d.max)
         IN [frequency_mhz_cur |-> _khz_to_mhz(cur_khz),
             frequency_mhz_max |-> _khz_to_mhz(max_khz),
             cpufreq_policy |-> PolicyLabel(policy, cur_khz)]

\* The value already in the record kept when there is one.
PreferSample(policy, sample) == IF sample.ok THEN sample ELSE policy

\* if freq[k] is not None: stats["cpu"][k] = freq[k]
PreferPolicy(policy, sample) == IF policy.ok THEN policy ELSE sample

\* ------------------------------------------------------------------ _mem_gib
\* In hundredths of a GiB; Nothing for an empty file, a short line, or any
\* exception (open fails, int() fails).
_mem_gib(f) ==
    IF f.err # "none" \/ f.lines = <<>> THEN Nothing
    ELSE LET parts == SplitWs(f.lines[1]) IN
         IF Len(parts) < 2 THEN Nothing
         ELSE LET kb == ParseInt(parts[2]) IN
              IF kb.ok THEN Some(RoundDiv(kb.v * 100, 1048576)) ELSE Nothing

\* -------------------------------------------------------------------- state
VARIABLES
    proc_cpuinfo,  \* /proc/cpuinfo
    topology,      \* the cpu*/topology directories, sorted: [pkg, core] files each
    cpufreq,       \* the cpufreq/policy* directories by name: [cur, max] files each
    osrelease,     \* /etc/os-release
    distro,        \* the optional distro library
    meminfo,       \* /proc/meminfo
    uname,         \* platform.uname()
    args,          \* the parsed command line
    pc,            \* where the run is
    scan,          \* the locals of _parse_proc_cpuinfo
    pos,           \* the next line of /proc/cpuinfo
    cpuinfo,       \* what _parse_proc_cpuinfo returned
    topo_called,   \* _cpu_topology_from_sysfs was called
    stats,         \* the record get_cpu_stat builds
    stdout,        \* the reports printed, by format
    stderr,        \* the diagnostics printed
    exit_code      \* the exit code of the process, once it ended

env == <<proc_cpuinfo, topology, cpufreq, osrelease, distro, meminfo, uname, args>>
vars == <<proc_cpuinfo, topology, cpufreq, osrelease, distro, meminfo, uname, args,
          pc, scan, pos, cpuinfo, topo_called, stats, stdout, stderr, exit_code>>

\* The "cpu" sub-record before any resolver ran (cpufreq_policy: key not set yet).
DefaultCpu ==
    [vendor |-> Unknown, model |-> Unknown, logical_cores |-> 0, physical_cores |-> 0,
     cache_size |-> Unknown, frequency_mhz_cur |-> Nothing, frequency_mhz_max |-> Nothing,
     cpufreq_policy |-> NoText]

DefaultStats ==
    [distribution |-> DefaultDistribution, kernel |-> Unknown, cpu |-> DefaultCpu,
     memory_gib |-> Nothing]

\* The program's part of the initial state: main() has not started.
InitRun ==
    /\ pc = "start"
    /\ scan = ScanStart
    /\ pos = 1
    /\ cpuinfo = ParseResult(ScanStart)
    /\ topo_called = FALSE
    /\ stats = DefaultStats
    /\ stdout = <<>>
    /\ stderr = <<>>
    /\ exit_code = Nothing

\* ------------------------------------------------------------------ actions
\* get_cpu_stat, the dict literal and the kernel release.
BuildStats ==
    /\ pc = "start"
    /\ stats' = [DefaultStats EXCEPT
                    !.distribution = _detect_distribution(distro, osrelease),
                    !.kernel = IF uname.ok THEN uname.release ELSE Unknown]
    /\ pc' = "open"
    /\ UNCHANGED <<env, scan, pos, cpuinfo, topo_called, stdout, stderr, exit_code>>

\* _parse_proc_cpuinfo, the open: FileNotFoundError prints the diagnostic and
\* exits 1; any other OSError is not caught anywhere and ends the process with
\* a traceback and exit code 1.
OpenCpuinfo ==
    /\ pc = "open"
    /\ IF OpenFails(proc_cpuinfo)
       THEN /\ pc' = "exit"
            /\ exit_code' = Some(1)
            /\ stderr' = Append(stderr,
                    IF proc_cpuinfo.err = "ENOENT" THEN "not found" ELSE "traceback")
            /\ UNCHANGED <<scan, pos>>
       ELSE /\ pc' = "scan"
            /\ scan' = ScanStart
            /\ pos' = 1
            /\ UNCHANGED <<stderr, exit_code>>
    /\ UNCHANGED <<env, cpuinfo, topo_called, stats, stdout>>

\* _parse_proc_cpuinfo, one iteration of `for line in f`.
ScanLine ==
    /\ pc = "scan"
    /\ pos <= Len(proc_cpuinfo.lines)
    /\ scan' = ParseLine(scan, proc_cpuinfo.lines[pos])
    /\ pos' = pos + 1
    /\ UNCHANGED <<env, pc, cpuinfo, topo_called, stats, stdout, stderr, exit_code>>

\* _parse_proc_cpuinfo returns; stats["cpu"].update(cpuinfo).
EndParse ==
    /\ pc = "scan"
    /\ pos > Len(proc_cpuinfo.lines)
    /\ cpuinfo' = ParseResult(scan)
    /\ stats' = [stats EXCEPT
                    !.cpu.vendor = ParseResult(scan).vendor,
                    !.cpu.model = ParseResult(scan).model,
                    !.cpu.logical_cores = ParseResult(scan).logical_cores,
                    !.cpu.physical_cores = ParseResult(scan).physical_cores,
                    !.cpu.cache_size = ParseResult(scan).cache_size,
                    !.cpu.frequency_mhz_cur = ParseResult(scan).frequency_mhz_cur]
    /\ pc' = "topo"
    /\ UNCHANGED <<env, scan, pos, topo_called, stdout, stderr, exit_code>>

\* get_cpu_stat, the topology fallback.
Topology ==
    /\ pc = "topo"
    /\ topo_called' = NeedsTopology(stats.cpu.physical_cores)
    /\ stats' = IF NeedsTopology(stats.cpu.physical_cores) /\ _cpu_topology_from_sysfs(topology) # 0
                THEN [stats EXCEPT !.cpu.physical_cores = _cpu_topology_from_sysfs(topology)]
                ELSE stats
    /\ pc' = "freq"
    /\ UNCHANGED <<env, scan, pos, cpuinfo, stdout, stderr, exit_code>>

\* get_cpu_stat, the frequency policy.
Frequency ==
    /\ pc = "freq"
    /\ LET freq == _cpufreq_from_sysfs(cpufreq) IN
       stats' = [stats EXCEPT
                    !.cpu.frequency_mhz_cur = PreferPolicy(freq.frequency_mhz_cur, @),
                    !.cpu.frequency_mhz_max = PreferPolicy(freq.frequency_mhz_max, @),
                    !.cpu.cpufreq_policy = freq.cpufreq_policy]
    /\ pc' = "mem"
    /\ UNCHANGED <<env, scan, pos, cpuinfo, topo_called, stdout, stderr, exit_code>>

\* get_cpu_stat, the memory size, and its return.
Memory ==
    /\ pc = "mem"
    /\ stats' = [stats EXCEPT !.memory_gib = _mem_gib(meminfo)]
    /\ pc' = "print"
    /\ UNCHANGED <<env, scan, pos, cpuinfo, topo_called, stdout, stderr, exit_code>>

\* --short wins over --json, which wins over the text report.
ReportFormat(a) == IF a.short THEN "short" ELSE IF a.json THEN "json" ELSE "text"

\* main, after get_cpu_stat: one report, return 0.
PrintReport ==
    /\ pc = "print"
    /\ stdout' = Append(stdout, ReportFormat(args))
    /\ exit_code' = Some(0)
    /\ pc' = "exit"
    /\ UNCHANGED <<env, scan, pos, cpuinfo, topo_called, stats, stderr>>

Next ==
    \/ BuildStats
    \/ OpenCpuinfo
    \/ ScanLine
    \/ EndParse
    \/ Topology
    \/ Frequency
    \/ Memory
    \/ PrintReport

\* ------------------------------------------------------------------- inputs
SeqsUpTo(S, n) == UNION {[1..k -> S] : k \in 0..n}

\* A line of /proc/cpuinfo as the kernel writes it: "key\t: value\n".
CpuLine(key, value) == key \o <<"\t", ":", " ">> \o value \o <<"\n">>

\* A sysfs attribute file holding one line.
Attr(word) == File(<<<<word, "\n">>>>)

NoDistro == [present |-> FALSE, name |-> <<>>, version |-> <<>>, pretty |-> <<>>, raises |-> 0]
MemTotalLine == <<"MemTotal", ":", " ", " ", "16777216", " ", "kB", "\n">>
PlainArgs == [json |-> FALSE, short |-> FALSE]
LinuxUname == [ok |-> TRUE, release |-> <<"6.1.0">>]
NoPolicies == [n \in {} |-> [cur |-> NoFile("ENOENT"), max |-> NoFile("ENOENT")]]

\* Lines of /proc/cpuinfo for the scan: processor lines with and without a
\* value, with padding, with further colons; lines that only look like one;
\* the first-seen fields with empty, sentinel and real values.
ScanPool ==
    { CpuLine(<<"processor">>, <<"0">>),
      <<"processor", ":", "\n">>,
      <<" ", "processor", " ", ":", " ", "x", ":", "processor", "\n">>,
      <<"processor", " ", "0", "\n">>,
      CpuLine(<<"flags">>, <<"processor">>),
      CpuLine(<<"processor", " ", "id">>, <<"0">>),
      <<"\n">>,
      CpuLine(<<"vendor_id">>, <<"GenuineIntel">>),
      CpuLine(<<"vendor_id">>, <<"AuthenticAMD">>),
      CpuLine(<<"vendor_id">>, <<"Unknown">>),
      <<"vendor_id", "\t", ":", "\n">>,
      CpuLine(<<"model", " ", "name">>, <<"Xeon", ":", " ", "E5">>),
      CpuLine(<<"model", " ", "name">>, <<"Unknown">>),
      CpuLine(<<"cache", " ", "size">>, <<"8192", " ", "KB">>),
      <<"cache", " ", "size", "\t", ":", " ", "\n">> }

\* Processor blocks: a processor line, a package id, a core count.
PkgWords == {"0", "1", "x"}
CoreWords == {"2", "4", "x"}
Block(pkg, cores) ==
    << CpuLine(<<"processor">>, <<"0">>),
       CpuLine(<<"physical", " ", "id">>, <<pkg>>),
       CpuLine(<<"cpu", " ", "cores">>, <<cores>>) >>
BlockPool == {Block(p, c) : p \in PkgWords, c \in CoreWords}

RECURSIVE Flatten(_)
Flatten(ss) == IF ss = <<>> THEN <<>> ELSE Head(ss) \o Flatten(Tail(ss))

\* Topology directories: identifiers present, missing, empty, not a number.
TopologyPool ==
    { [pkg |-> Attr("0"), core |-> Attr("0")],
      [pkg |-> Attr("0"), core |-> Attr("1")],
      [pkg |-> Attr("1"), core |-> Attr("0")],
      [pkg |-> Attr("1"), core |-> NoFile("ENOENT")],
      [pkg |-> NoFile("EACCES"), core |-> Attr("1")],
      [pkg |-> Attr("x"), core |-> Attr("0")],
      [pkg |-> Attr("0"), core |-> File(<<>>)] }

\* Descriptors with and without a usable core count.
TopoCpuinfoPool ==
    { <<>>,
      <<CpuLine(<<"processor">>, <<"0">>), CpuLine(<<"processor">>, <<"1">>)>>,
      Block("0", "2"),
      Block("0", "x"),
      <<CpuLine(<<"processor">>, <<"0">>), CpuLine(<<"cpu", " ", "cores">>, <<"4">>)>>,
      Block("1", "0") }

\* Policy directories: readable, unreadable and malformed attributes.
PolicyPool ==
    { [cur |-> Attr("2400000"), max |-> Attr("3600000")],
      [cur |-> Attr("2400123"), max |-> NoFile("ENOENT")],
      [cur |-> Attr("800000"), max |-> Attr("x")],
      [cur |-> NoFile("EACCES"), max |-> Attr("3600000")],
      [cur |-> Attr("x"), max |-> Attr("2400000")],
      [cur |-> File(<<>>), max |-> File(<<>>)],
      [cur |-> Attr("250"), max |-> Attr("800000")] }

PolicySets == SUBSET {PolicyNames[i] : i \in 1..Len(PolicyNames)}

\* Descriptors with and without a per-processor frequency sample.
FreqCpuinfoPool ==
    { <<CpuLine(<<"processor">>, <<"0">>)>>,
      <<CpuLine(<<"cpu", " ", "MHz">>, <<"1197.312">>)>>,
      <<CpuLine(<<"cpu", " ", "MHz">>, <<"x">>), CpuLine(<<"cpu", " ", "MHz">>, <<"1500.260">>)>>,
      <<CpuLine(<<"cpu", " ", "MHz">>, <<"3000.000">>), CpuLine(<<"cpu", " ", "MHz">>, <<"1197.312">>)>> }

\* Lines of /etc/os-release: each key with a quoted value, an empty value, a
\* quoted blank, and the sentinel; a key that only shares a prefix.
OsLine(key, value) == <<key, "=">> \o value \o <<"\n">>
OsPool ==
    { OsLine("PRETTY_NAME", <<"\"", "Ubuntu", " ", "22.04", "\"">>),
      OsLine("PRETTY_NAME", <<>>),
      OsLine("PRETTY_NAME", <<"\"", "\"">>),
      OsLine("PRETTY_NAME", <<"Unknown">>),
      OsLine("NAME", <<"\"", "Ubuntu", "\"">>),
      OsLine("NAME", <<>>),
      OsLine("NAME", <<"\"", " ", "\"">>),
      OsLine("VERSION_ID", <<"\"", "22.04", "\"">>),
      OsLine("VERSION_ID", <<>>),
      OsLine("VERSION_ID", <<"\"", " ", "\"">>),
      OsLine("VERSION", <<"\"", "22.04", " ", "LTS", "\"">>) }

DistroPool ==
    {NoDistro} \cup
    [present : {TRUE}, name : {<<>>, <<"Debian">>}, version : {<<>>, <<"12">>},
     pretty : {<<>>, <<"Debian", " ", "12">>}, raises : 0..3]

MeminfoPool ==
    { File(<<MemTotalLine>>),
      File(<<<<"MemTotal", ":", " ", "131072", " ", "kB", "\n">>>>),
      File(<<<<"MemTotal", ":", "\n">>>>),
      File(<<<<"MemTotal", ":", " ", "x", " ", "kB", "\n">>>>),
      File(<<>>),
      NoFile("ENOENT") }

UnamePool ==
    { LinuxUname, [ok |-> TRUE, release |-> <<>>], [ok |-> FALSE, release |-> <<>>] }

ArgsPool == [json : BOOLEAN, short : BOOLEAN]

\* ------------------------------------------------------------ specifications
\* The secondary sources at rest: nothing but /proc/meminfo and uname.
QuietEnv ==
    /\ topology = <<>>
    /\ cpufreq = NoPolicies
    /\ osrelease = NoFile("ENOENT")
    /\ distro = NoDistro
    /\ meminfo = File(<<MemTotalLine>>)
    /\ uname = LinuxUname
    /\ args = PlainArgs

\* Every source present, missing, unreadable or malformed, every flag.
Init ==
    /\ proc_cpuinfo \in
         { NoFile("ENOENT"), NoFile("EACCES"), File(<<>>),
           File(Block("0", "2")),
           File(<<CpuLine(<<"processor">>, <<"0">>), <<"vendor_id", "\t", ":", "\n">>,
                  CpuLine(<<"cpu", " ", "MHz">>, <<"1197.312">>)>>) }
    /\ topology \in {<<>>, <<[pkg |-> Attr("0"), core |-> Attr("1")]>>,
                      <<[pkg |-> NoFile("EACCES"), core |-> Attr("1")]>>}
    /\ cpufreq \in {NoPolicies,
                    [n \in {"policy1"} |-> [cur |-> Attr("2400000"), max |-> Attr("x")]],
                    [n \in {"policy1"} |-> [cur |-> NoFile("EACCES"), max |-> Attr("3600000")]]}
    /\ osrelease \in {NoFile("ENOENT"), NoFile("EACCES"),
                      File(<<OsLine("NAME", <<"\"", "Ubuntu", "\"">>)>>)}
    /\ distro \in {NoDistro,
                   [present |-> TRUE, name |-> <<"Debian">>, version |-> <<>>,
                    pretty |-> <<>>, raises |-> 2]}
    /\ meminfo \in MeminfoPool
    /\ uname \in UnamePool
    /\ args \in ArgsPool
    /\ InitRun

Spec == Init /\ [][Next]_vars

\* The scan of /proc/cpuinfo over every short descriptor.
InitScan ==
    /\ proc_cpuinfo \in {File(ls) : ls \in SeqsUpTo(ScanPool, MaxLines)}
    /\ QuietEnv
    /\ InitRun

SpecScan == InitScan /\ [][Next]_vars

\* Descriptors made of processor blocks, in every order.
InitBlocks ==
    /\ proc_cpuinfo \in {File(Flatten(bs)) : bs \in SeqsUpTo(BlockPool, MaxBlocks)}
    /\ QuietEnv
    /\ InitRun

SpecBlocks == InitBlocks /\ [][Next]_vars

\* The topology fallback over every short topology listing.
InitTopo ==
    /\ proc_cpuinfo \in {File(ls) : ls \in TopoCpuinfoPool}
    /\ topology \in SeqsUpTo(TopologyPool, MaxCpus)
    /\ cpufreq = NoPolicies
    /\ osrelease = NoFile("ENOENT")
    /\ distro = NoDistro
    /\ meminfo = File(<<MemTotalLine>>)
    /\ uname = LinuxUname
    /\ args = PlainArgs
    /\ InitRun

SpecTopo == InitTopo /\ [][Next]_vars

\* The frequency resolver over every set of policy directories.
InitFreq ==
    /\ proc_cpuinfo \in {File(ls) : ls \in FreqCpuinfoPool}
    /\ cpufreq \in UNION {[ns -> PolicyPool] : ns \in PolicySets}
    /\ topology = <<>>
    /\ osrelease = NoFile("ENOENT")
    /\ distro = NoDistro
    /\ meminfo = File(<<MemTotalLine>>)
    /\ uname = LinuxUname
    /\ args = PlainArgs
    /\ InitRun

SpecFreq == InitFreq /\ [][Next]_vars

\* The distribution identifier over every library answer and short descriptor.
InitDistro ==
    /\ proc_cpuinfo = File(<<CpuLine(<<"processor">>, <<"0">>)>>)
    /\ distro \in DistroPool
    /\ osrelease \in {NoFile("ENOENT"), NoFile("EACCES")}
                     \cup {File(ls) : ls \in SeqsUpTo(OsPool, MaxOsLines)}
    /\ topology = <<>>
    /\ cpufreq = NoPolicies
    /\ meminfo = File(<<MemTotalLine>>)
    /\ uname = LinuxUname
    /\ args = PlainArgs
    /\ InitRun

SpecDistro == InitDistro /\ [][Next]_vars

\* ------------------------------------------------------------------- claims
\* Where the run is.
Exit0 == pc = "exit" /\ exit_code.ok /\ exit_code.v = 0
Aborted == pc = "exit" /\ exit_code.ok /\ exit_code.v # 0
Parsed == pc \in {"topo", "freq", "mem", "print"} \/ Exit0
AfterTopology == pc \in {"freq", "mem", "print"} \/ Exit0
AfterFrequency == pc \in {"mem", "print"} \/ Exit0
Returned == pc = "print" \/ Exit0

\* What the claims say about text, stated on positions rather than by the
\* program's own strip and partition.
Core(s) ==
    LET idx == {i \in 1..Len(s) : s[i] \notin Whitespace} IN
    IF idx = {} THEN <<>>
    ELSE SubSeq(s, CHOOSE i \in idx : \A j \in idx : i <= j,
                   CHOOSE i \in idx : \A j \in idx : j <= i)

FirstColonAt(line, i) == line[i] = ":" /\ \A j \in 1..(i - 1) : line[j] # ":"

\* The stripped text before the first ':' of the line is k.
HasKey(line, k) ==
    \E i \in 1..Len(line) : FirstColonAt(line, i) /\ Core(SubSeq(line, 1, i - 1)) = k

\* The stripped text after the first ':' of a line that has one.
ValueAfterColon(line) ==
    LET i == CHOOSE i \in 1..Len(line) : FirstColonAt(line, i)
    IN Core(SubSeq(line, i + 1, Len(line)))

Lines == proc_cpuinfo.lines

ProcessorLines(n) == {i \in 1..n : HasKey(Lines[i], <<"processor">>)}

\* C1: logical_cores is the number of lines whose stripped text before the
\* first ':' is exactly "processor", at every point of the scan, in the dict
\* the parser returns and in the record get_cpu_stat returns.
C1_LogicalCoresCountProcessorLines ==
    /\ pc = "scan" => scan.logical_cores = Cardinality(ProcessorLines(pos - 1))
    /\ Parsed => /\ cpuinfo.logical_cores = Cardinality(ProcessorLines(Len(Lines)))
                 /\ stats.cpu.logical_cores = Cardinality(ProcessorLines(Len(Lines)))

\* Two processor lines counted, one of them valueless or with further colons,
\* beside a line that names "processor" without having it as its key.
C1_Witness ==
    /\ Exit0
    /\ Len(Lines) = 3
    /\ stats.cpu.logical_cores = 2
    /\ \E i \in 1..3 : HasKey(Lines[i], <<"processor">>) /\ ParseInt(ValueAfterColon(Lines[i])).ok = FALSE
    /\ \E i \in 1..3 : ~HasKey(Lines[i], <<"processor">>) /\ Find(Lines[i], "processor") # 0

\* The blocks of a descriptor made of three-line blocks.
NBlocks == Len(Lines) \div 3
BlockPkgWord(i) == Lines[3 * i - 1][7]
BlockCoreWord(i) == Lines[3 * i][7]
WordValue == ("0" :> 0) @@ ("1" :> 1) @@ ("2" :> 2) @@ ("4" :> 4)
BlocksWellFormed ==
    \A i \in 1..NBlocks :
        BlockPkgWord(i) \in DOMAIN WordValue /\ BlockCoreWord(i) \in DOMAIN WordValue
BlocksConsistent ==
    \A i, j \in 1..NBlocks :
        BlockPkgWord(i) = BlockPkgWord(j) => BlockCoreWord(i) = BlockCoreWord(j)
Packages == {BlockPkgWord(i) : i \in 1..NBlocks}
CoresOfPackage(p) ==
    WordValue[BlockCoreWord(CHOOSE i \in 1..NBlocks : BlockPkgWord(i) = p)]

RECURSIVE SumCores(_)
SumCores(ps) ==
    IF ps = {} THEN 0
    ELSE LET p == CHOOSE x \in ps : TRUE IN CoresOfPackage(p) + SumCores(ps \ {p})

\* C2: when every block carries an integer package id followed by that
\* package's integer core count, physical_cores is the sum of the core counts
\* over the distinct packages: a function of the set of (package, count)
\* pairs, so the same for every order and repetition of the blocks.
C2_PhysicalCoresSumPerPackage ==
    (Parsed /\ BlocksWellFormed /\ BlocksConsistent)
        => cpuinfo.physical_cores = SumCores(Packages)

\* Three blocks, two packages with 2 and 4 cores, one package repeated: 6.
C2_Witness ==
    /\ Parsed
    /\ BlocksWellFormed /\ BlocksConsistent
    /\ NBlocks = 3
    /\ Cardinality(Packages) = 2
    /\ BlockPkgWord(1) = BlockPkgWord(3)
    /\ cpuinfo.physical_cores = 6

\* A sysfs attribute that reads as one integer, and the integer.
ExposesInt(f) ==
    /\ f.err = "none"
    /\ f.lines # <<>>
    /\ Len(Core(f.lines[1])) = 1
    /\ Core(f.lines[1])[1] \in DOMAIN IntLiteral
IntOf(f) == IntLiteral[Core(f.lines[1])[1]]

\* The distinct (package id, core id) pairs of the topology listing.
DistinctPairs ==
    {<<IntOf(topology[i].pkg), IntOf(topology[i].core)>> :
        i \in {j \in 1..Len(topology) :
                  ExposesInt(topology[j].pkg) /\ ExposesInt(topology[j].core)}}

\* C3: the topology is consulted exactly when the parse gave 0; then the final
\* physical_cores is the number of distinct (package, core) pairs (0 when there
\* is none); a non-zero parse result is final.
C3_TopologyFallback ==
    AfterTopology =>
        /\ topo_called <=> (cpuinfo.physical_cores = 0)
        /\ cpuinfo.physical_cores = 0
              => stats.cpu.physical_cores = Cardinality(DistinctPairs)
        /\ cpuinfo.physical_cores # 0
              => stats.cpu.physical_cores = cpuinfo.physical_cores

\* The fallback counted two pairs out of three entries, one skipped.
C3_Witness ==
    /\ Exit0
    /\ topo_called
    /\ Len(topology) = 3
    /\ \E i \in 1..3 : ~ExposesInt(topology[i].pkg) \/ ~ExposesInt(topology[i].core)
    /\ stats.cpu.physical_cores = 2

\* The policy directory the resolver reads: the least in sorted order, which
\* is policy0 whenever it exists.
PolicyRank(n) == CHOOSE i \in 1..Len(PolicyNames) : PolicyNames[i] = n
SelectedName ==
    CHOOSE n \in DOMAIN cpufreq : \A m \in DOMAIN cpufreq : PolicyRank(n) <= PolicyRank(m)
PolicyHas(attr) == DOMAIN cpufreq # {} /\ ExposesInt(cpufreq[SelectedName][attr])
PolicyKhz(attr) == IntOf(cpufreq[SelectedName][attr])

\* t tenths of a MHz is khz / 1000 to one decimal.
IsMhzOf(t, khz) == 100 * t - khz <= 50 /\ khz - 100 * t <= 50

\* C4: a readable policy value is what is reported, converted from kHz to
\* MHz, for current and for maximum; the per-processor sample is reported as
\* current only when the policy gave none, and never as maximum.
C4_PolicyFrequencyPreferred ==
    AfterFrequency =>
        /\ IF PolicyHas("cur")
           THEN /\ stats.cpu.frequency_mhz_cur.ok
                /\ IsMhzOf(stats.cpu.frequency_mhz_cur.v, PolicyKhz("cur"))
           ELSE stats.cpu.frequency_mhz_cur = cpuinfo.frequency_mhz_cur
        /\ IF PolicyHas("max")
           THEN /\ stats.cpu.frequency_mhz_max.ok
                /\ IsMhzOf(stats.cpu.frequency_mhz_max.v, PolicyKhz("max"))
           ELSE ~stats.cpu.frequency_mhz_max.ok

\* Both sources gave a current frequency, they differ, and no maximum exists.
C4_Witness ==
    /\ Exit0
    /\ PolicyHas("cur")
    /\ ~PolicyHas("max")
    /\ cpuinfo.frequency_mhz_cur.ok
    /\ cpuinfo.frequency_mhz_cur.v # stats.cpu.frequency_mhz_cur.v
    /\ stats.cpu.frequency_mhz_cur.v = 24001

\* The guard of some action holds: the run has a next step.
CanStep ==
    \/ pc \in {"start", "open", "topo", "freq", "mem", "print"}
    \/ pc = "scan" /\ pos <= Len(Lines)
    \/ pc = "scan" /\ pos = Len(Lines) + 1

\* C5: the run ends with a non-zero exit code and no report exactly when
\* /proc/cpuinfo cannot be opened; otherwise it ends with exit code 0 and
\* exactly one report, whatever the secondary sources hold; before it exits
\* it always has a next step, and nothing is printed before the report.
C5_AbortIffDescriptorUnopenable ==
    /\ pc = "exit" =>
          /\ (Aborted /\ stdout = <<>>) <=> (proc_cpuinfo.err # "none")
          /\ proc_cpuinfo.err = "none" => (Exit0 /\ Len(stdout) = 1)
    /\ pc # "exit" => (stdout = <<>> /\ ~exit_code.ok /\ CanStep)

\* Every secondary source failing, and the run still reports.
C5_Witness ==
    /\ Exit0
    /\ Len(stdout) = 1
    /\ Len(topology) = 1 /\ topology[1].pkg.err # "none"
    /\ DOMAIN cpufreq # {} /\ cpufreq["policy1"].cur.err # "none"
    /\ osrelease.err = "EACCES"
    /\ distro.present
    /\ meminfo.err # "none"
    /\ ~uname.ok

\* C6 as stated: a descriptor that opens but is empty aborts the run.
C6_EmptyDescriptorIsFatal ==
    (pc = "exit" /\ proc_cpuinfo = File(<<>>)) => (Aborted /\ stdout = <<>>)

\* C6 as amended: a descriptor that opens but is empty is not fatal; the run
\* reports a record with logical_cores = 0, the parser's physical_cores = 0 and
\* the CPU strings "Unknown", and exits 0.
C6_EmptyDescriptorIsReported ==
    (pc = "exit" /\ proc_cpuinfo = File(<<>>)) =>
        /\ Exit0
        /\ Len(stdout) = 1
        /\ stats.cpu.logical_cores = 0
        /\ cpuinfo.physical_cores = 0
        /\ stats.cpu.vendor = Unknown
        /\ stats.cpu.model = Unknown
        /\ stats.cpu.cache_size = Unknown

C6_Witness == pc = "exit" /\ proc_cpuinfo = File(<<>>) /\ stdout # <<>>

\* C7: every string field of the returned record is a non-empty value or
\* "Unknown", never the empty string.
C7_NoEmptyStringField ==
    Returned =>
        /\ stats.cpu.vendor # <<>>
        /\ stats.cpu.model # <<>>
        /\ stats.cpu.cache_size # <<>>
        /\ stats.kernel # <<>>
        /\ stats.distribution.name # <<>>
        /\ stats.distribution.version # <<>>
        /\ stats.distribution.pretty # <<>>

\* C8: the pretty string _detect_distribution returns is never empty, and is
\* "Unknown Unknown" with no library and no descriptor.
C8_PrettyNeverBlank ==
    pc # "start" =>
        /\ stats.distribution.pretty # <<>>
        /\ (~distro.present /\ osrelease.err # "none")
              => stats.distribution = [name |-> Unknown, version |-> Unknown,
                                        pretty |-> <<"Unknown", " ", "Unknown">>]

\* C9 as stated: cpufreq_policy names a policy exactly when the reported
\* current frequency was taken from the policy interface.
C9_PolicyNamedIffCurrentFromPolicy ==
    AfterFrequency => (stats.cpu.cpufreq_policy.ok <=> PolicyHas("cur"))

\* C9 as amended: cpufreq_policy names the selected policy directory whenever
\* a policy directory exists, readable or not, and is absent exactly when none
\* exists; so it is named whenever the current frequency came from the policy,
\* and may be named while the reported current frequency is the sample.
C9_PolicyNamedIffDirectoryExists ==
    AfterFrequency =>
        /\ stats.cpu.cpufreq_policy.ok <=> (DOMAIN cpufreq # {})
        /\ stats.cpu.cpufreq_policy.ok => stats.cpu.cpufreq_policy.v = <<SelectedName>>
        /\ PolicyHas("cur") => stats.cpu.cpufreq_policy.ok

\* A policy is named while the reported current frequency is the sample.
C9_Witness ==
    /\ Exit0
    /\ stats.cpu.cpufreq_policy.ok
    /\ stats.cpu.cpufreq_policy.v # <<"policy0">>
    /\ ~PolicyHas("cur")
    /\ cpuinfo.frequency_mhz_cur.ok
    /\ stats.cpu.frequency_mhz_cur = cpuinfo.frequency_mhz_cur

\* The first scanned line with key k, 0 when there is none.
FirstWithKey(k, n) ==
    IF \E i \in 1..n : HasKey(Lines[i], k)
    THEN CHOOSE i \in 1..n : HasKey(Lines[i], k) /\ \A j \in 1..(i - 1) : ~HasKey(Lines[j], k)
    ELSE 0
FirstSeen(k, n, field) ==
    FirstWithKey(k, n) # 0 => field = ValueAfterColon(Lines[FirstWithKey(k, n)])

\* C10: during the scan each of vendor, model and cache size holds the value
\* of the first line with its key, whatever that value is, and no later line
\* changes it.
C10_FirstSeenWins ==
    pc = "scan" =>
        /\ FirstSeen(<<"vendor_id">>, pos - 1, scan.vendor_id)
        /\ FirstSeen(<<"model", " ", "name">>, pos - 1, scan.model_name)
        /\ FirstSeen(<<"cache", " ", "size">>, pos - 1, scan.cache_size)

====
